---- MODULE Spec2Model ----
(***************************************************************************)
(* pylava: the Lavalink control connection (pylava/connection.py) and the  *)
(* per-guild Player (pylava/player.py), as a state machine of the asyncio  *)
(* tasks that run on the bot's event loop.  Every action is the code that  *)
(* runs between two suspension points (await) of one task.                 *)
(***************************************************************************)
EXTENDS Integers, Sequences, FiniteSets, TLC

\* ------------------------------------------------------------ bounds
\* Player objects ever constructed.
MaxInst == 2
\* Lavalink websockets ever opened by Connection.connect.
MaxConn == 2
\* Websockets opened in the specification of the shard monitor.
MaxShardConn == 1
\* Application calls in flight (suspended in an await) at a time.
MaxCalls == 1
\* Player._process_event tasks scheduled and not yet finished.
MaxEvents == 1

\* ------------------------------------------------- program constants
\* bot.shard_count
ShardCount == 2
\* `op_unpause = 0`, the marker appended to a limbo entry.
op_unpause == 0
\* Player.__init__: self._volume = 100
DefaultVolume == 100
\* _discord_volume: max(min(level, 150), 0)
MaxVolume == 150
MinVolume == 0
\* `guild >> 22`
ShardShift == 22

\* ------------------------------------------------------------ inputs
\* Guild ids: 5 is of shard 0, the other two are of shard 1.
GuildIds == {5, 4194305, 12582913}
\* Voice channel ids (non-zero snowflakes).
Channels == {7, 9}
\* Arguments of set_volume: below, inside, on and above the range.
VolumeArgs == {-3, 40, 150, 200}
\* Track ids given to play.
Tracks == {"trackA"}
\* state.position of a playerUpdate, in milliseconds; state.time and the
\* clock are taken equal, so the lag is 0.
Positions == {3000}
Callbacks == {"sync", "async"}
Shards == 0 .. (ShardCount - 1)

\* Python's None, for optional fields.
None == <<>>
Some(x) == <<x>>

VARIABLES
    websocket,      \* Connection._websocket: None or Some(id of a websocket)
    wsOpen,         \* the websockets whose transport is open
    nws,            \* websockets opened so far
    players,        \* Connection._players: a dict in insertion order, <<guild, inst>>
    heap,           \* the Player objects constructed so far, by instance number
    limbo,          \* Connection._limbo: a dict in insertion order, <<guild, actions>>
    unlimbo_tasks,  \* Connection._unlimbo_tasks: the shards with an entry
    utask,          \* the _unlimbo_shard task of each shard
    shardOpen,      \* Discord gateway: the shards whose websocket is open
    monitors,       \* the live _discord_connection_handler loops
    processors,     \* the live _lava_event_processor loops, by the websocket read
    events,         \* the scheduled Player._process_event tasks
    calls,          \* the application's Player / Connection calls in flight
    out,            \* what this step wrote to the Lavalink transport
    last,           \* what this step did: the call, its subject and how it ended
    pauses          \* observation: the last pause envelope written per guild, when logged

vars == <<websocket, wsOpen, nws, players, heap, limbo, unlimbo_tasks, utask,
          shardOpen, monitors, processors, events, calls, out, last, pauses>>

\* ------------------------------------------------------------ helpers
Range(s) == {s[k] : k \in 1 .. Len(s)}

\* dict: a sequence of <<key, value>> pairs with distinct keys, in insertion order
DictKeys(d) == {d[k][1] : k \in 1 .. Len(d)}
DictKeySeq(d) == [k \in 1 .. Len(d) |-> d[k][1]]
DictHas(d, key) == key \in DictKeys(d)
DictGet(d, key) == (CHOOSE k \in 1 .. Len(d) : d[k][1] = key)
DictVal(d, key) == d[DictGet(d, key)][2]
DictSet(d, key, val) ==
    IF DictHas(d, key)
    THEN [d EXCEPT ![DictGet(d, key)] = <<key, val>>]
    ELSE Append(d, <<key, val>>)
DictPop(d, key) ==
    LET at == DictGet(d, key)
    IN  SubSeq(d, 1, at - 1) \o SubSeq(d, at + 1, Len(d))

\* (guild >> 22) % self.bot.shard_count
ShardOf(guild) == (guild \div (2 ^ ShardShift)) % ShardCount

\* Connection.connected
connected == websocket # None /\ websocket[1] \in wsOpen

\* Player.__init__ (conn is the one Connection; _connecting, which
\* Player.connect sets and nothing reads, is left out)
NewPlayer(guild) ==
    [guild |-> guild, channel |-> None, paused |-> FALSE,
     playing |-> FALSE, position |-> None, volume |-> DefaultVolume,
     track_callback |-> "None"]

\* Player.paused / Player.playing / Player.stopped / Player.connected
paused(p) == p.paused
\* playing without the precedence of paused: `return self._playing`.
playing_ignores_paused(p) == p.playing
playing(p) == IF paused(p) THEN FALSE ELSE p.playing
stopped(p) == ~playing(p) /\ ~paused(p)
playerConnected(p) == p.channel # None

\* What a step records about itself.
Did(op, guild, inst, arg, status) ==
    [op |-> op, guild |-> guild, inst |-> inst, arg |-> arg, status |-> status]

\* isinstance(v, int), for the values the model passes as ids: an integer
\* prints as its digits, a string does not print as the digits of one.
IsInt(v) == ToString(v) \in {ToString(n) : n \in GuildIds \cup Channels \cup {op_unpause}}

\* Connection._send: the coercion of guildId / channelId to strings.
Coerce(data) ==
    [f \in DOMAIN data |->
        IF f \in {"guildId", "channelId"} /\ IsInt(data[f])
        THEN ToString(data[f]) ELSE data[f]]

\* ------------------------------------------------- Connection (bridge)
\* get_player with the lookup lost: a Player is constructed on every call.
get_player_always_new(guild_id) ==
    [player |-> Len(heap) + 1,
     players |-> DictSet(players, guild_id, Len(heap) + 1),
     heap |-> Append(heap, NewPlayer(guild_id))]

\* Connection.get_player: the Player returned, and the registry and the
\* objects after the call.
get_player(guild_id) ==
    IF DictHas(players, guild_id)
    THEN [player |-> DictVal(players, guild_id), players |-> players, heap |-> heap]
    ELSE [player |-> Len(heap) + 1,
          players |-> DictSet(players, guild_id, Len(heap) + 1),
          heap |-> Append(heap, NewPlayer(guild_id))]

\* get_player constructs an object only while the model has room for one.
CanGetPlayer(guild_id) == DictHas(players, guild_id) \/ Len(heap) < MaxInst

\* _send with the `connected` check lost.
send_unguarded(data) == [status |-> "ok", wire |-> <<Coerce(data)>>]

\* Connection._send: Disconnected and nothing written when not connected,
\* else the coerced envelope written to the transport.
\* (The validationRes branch acts only on the envelopes of
\* _lava_validation_request, a task that is not part of this model.)
send(data) ==
    IF ~connected
    THEN [status |-> "Disconnected", wire |-> <<>>]
    ELSE [status |-> "ok", wire |-> <<Coerce(data)>>]

\* disconnect with the registry kept.
disconnect_keeps_players == [websocket |-> None, players |-> players]

\* Connection.disconnect, after close() returned: the handle and the registry.
disconnect_reset == [websocket |-> None, players |-> <<>>]

\* A _discord_connection_handler task as create_task leaves it, and the
\* locals it keeps over its awaits: shards_panicking, the rest of
\* tuple(self._players), guild, player, ch.
NewMonitor ==
    [pc |-> "loop", panicking |-> {}, todo |-> <<>>, guild |-> 0, inst |-> 0,
     ch |-> 0]

\* No _unlimbo_shard task, and the locals one keeps over its awaits: the rest
\* of tuple(self._limbo), guild, player, actions.
NoTask == [pc |-> "none", todo |-> <<>>, guild |-> 0, inst |-> 0, actions |-> <<>>]

\* The log of pause envelopes, not kept / kept from the start.
NoPauseLog == [on |-> FALSE, value |-> [g \in GuildIds |-> "none"]]
PauseLog == [on |-> TRUE, value |-> [g \in GuildIds |-> "none"]]

\* The pause value, as logged, of the pause envelope for guild g in what a
\* step wrote, or `was` when the step wrote none.
logged_pause(was, wire, g) ==
    IF \E n \in 1 .. Len(wire) :
          wire[n].op = "pause" /\ wire[n].guildId = ToString(g)
    THEN LET n == CHOOSE n \in 1 .. Len(wire) :
                     wire[n].op = "pause" /\ wire[n].guildId = ToString(g)
         IN  IF wire[n].pause THEN "true" ELSE "false"
    ELSE was

\* A step hands `wire` to the transport (json.dumps and the websocket's
\* send in _send); the log follows when it is kept.
Wrote(wire) ==
    /\ out' = wire
    /\ pauses' = IF pauses.on
                 THEN [pauses EXCEPT !.value =
                          [g \in GuildIds |-> logged_pause(pauses.value[g], wire, g)]]
                 ELSE pauses

\* The Connection as __init__ leaves it, with no websocket yet.
InitProgram ==
    /\ websocket = None
    /\ wsOpen = {}
    /\ nws = 0
    /\ players = <<>>
    /\ heap = <<>>
    /\ limbo = <<>>
    /\ unlimbo_tasks = {}
    /\ utask = [s \in Shards |-> NoTask]
    /\ shardOpen = Shards
    /\ monitors = <<>>
    /\ processors = <<>>
    /\ events = <<>>
    /\ calls = <<>>
    /\ out = <<>>
    /\ last = Did("init", 0, 0, 0, "ok")

Init == InitProgram /\ pauses = NoPauseLog
\* The same, with the log of pause envelopes kept.
PauseInit == InitProgram /\ pauses = PauseLog

RemoveAt(s, k) == SubSeq(s, 1, k - 1) \o SubSeq(s, k + 1, Len(s))

\* The application calls get_player(guild_id).
GetPlayer(guild_id) ==
    /\ CanGetPlayer(guild_id)
    /\ LET r == get_player(guild_id)
       IN  /\ players' = r.players
           /\ heap' = r.heap
           /\ last' = Did("get_player", guild_id, r.player, 0, "ok")
    /\ Wrote(<<>>)
    /\ UNCHANGED <<websocket, wsOpen, nws, limbo, unlimbo_tasks, utask,
                   shardOpen, monitors, processors, events, calls>>

\* Connection.connect, from websockets.connect returning: the new handle and
\* the two background loops.
ConnConnect ==
    /\ nws < MaxConn
    /\ nws' = nws + 1
    /\ websocket' = Some(nws + 1)
    /\ wsOpen' = wsOpen \cup {nws + 1}
    /\ processors' = Append(processors, [pc |-> "recv", ws |-> nws + 1])
    /\ monitors' = Append(monitors, NewMonitor)
    /\ Wrote(<<>>)
    /\ last' = Did("Connection.connect", 0, 0, nws + 1, "ok")
    /\ UNCHANGED <<players, heap, limbo, unlimbo_tasks, utask, shardOpen,
                   events, calls>>

\* Connection.disconnect, to the await of close(): Disconnected when not
\* connected, else the call waits for the websocket it closes.
ConnDisconnectCall ==
    /\ Wrote(<<>>)
    /\ IF ~connected
       THEN /\ last' = Did("Connection.disconnect", 0, 0, 0, "Disconnected")
            /\ calls' = calls
       ELSE /\ Len(calls) < MaxCalls
            /\ last' = Did("Connection.disconnect", 0, 0, websocket[1], "closing")
            /\ calls' = Append(calls, [op |-> "Connection.disconnect",
                                       ws |-> websocket[1]])
    /\ UNCHANGED <<websocket, wsOpen, nws, players, heap, limbo, unlimbo_tasks,
                   utask, shardOpen, monitors, processors, events>>

\* Connection.disconnect, from close() returning (the websocket is closed).
ConnDisconnectReturn(k) ==
    /\ k \in 1 .. Len(calls)
    /\ calls[k].op = "Connection.disconnect"
    /\ calls[k].ws \notin wsOpen
    /\ websocket' = disconnect_reset.websocket
    /\ players' = disconnect_reset.players
    /\ calls' = RemoveAt(calls, k)
    /\ Wrote(<<>>)
    /\ last' = Did("Connection.disconnect", 0, 0, calls[k].ws, "ok")
    /\ UNCHANGED <<wsOpen, nws, heap, limbo, unlimbo_tasks, utask, shardOpen,
                   monitors, processors, events>>

\* The transport of a Lavalink websocket closes: the close handshake of
\* close(), the server, or the network.
TransportClose(w) ==
    /\ w \in wsOpen
    /\ wsOpen' = wsOpen \ {w}
    /\ Wrote(<<>>)
    /\ last' = Did("transport_close", 0, 0, w, "ok")
    /\ UNCHANGED <<websocket, nws, players, heap, limbo, unlimbo_tasks, utask,
                   shardOpen, monitors, processors, events, calls>>

\* --------------------------------------------------------------- Player
\* _discord_connect .. _discord_seek: the envelope each hands to _send.
discord_connect(guild_id, channel_id) ==
    send([op |-> "connect", guildId |-> guild_id, channelId |-> channel_id])
discord_disconnect(guild_id) ==
    send([op |-> "disconnect", guildId |-> guild_id])
discord_pause(guild_id, pause) ==
    send([op |-> "pause", guildId |-> guild_id, pause |-> pause])
discord_stop(guild_id) ==
    send([op |-> "stop", guildId |-> guild_id])
discord_seek(guild_id, position) ==
    send([op |-> "seek", guildId |-> guild_id, position |-> position * 1000])

\* _discord_volume with max and min exchanged: max(max(level, 150), 0).
clamp_volume_swapped(level) ==
    IF level > MaxVolume THEN level ELSE MaxVolume

\* _discord_volume: the level clamped, sent, and returned.
clamp_volume(level) ==
    LET lo == IF level < MaxVolume THEN level ELSE MaxVolume
    IN  IF lo > MinVolume THEN lo ELSE MinVolume
discord_volume(guild_id, level) ==
    [sent |-> send([op |-> "volume", guildId |-> guild_id,
                    volume |-> clamp_volume(level)]),
     level |-> clamp_volume(level)]

\* _discord_play(self, guild_id, track): its parameters after self.
discord_play_params == <<"guild_id", "track">>
\* Player.play: the arguments of its call of _discord_play.
play_call_args(guild_id, track, start_time, end_time) ==
    <<guild_id, track, start_time, end_time>>
\* Player.play's call of _discord_play: Python binds the arguments to the
\* parameters first and raises TypeError, before any of the callee runs, when
\* there are more positional arguments than parameters.
discord_play(args) ==
    IF Len(args) # Len(discord_play_params)
    THEN [status |-> "TypeError", wire |-> <<>>]
    ELSE send([op |-> "play", guildId |-> args[1], track |-> args[2]])

\* A Player method called with `input` that sends one envelope, `r`, and then
\* assigns `arg`: the call raises without suspending, or is suspended in the
\* transport's send.
Command(op, i, input, arg, r) ==
    /\ Wrote(r.wire)
    /\ IF r.status = "ok"
       THEN /\ Len(calls) < MaxCalls
            /\ calls' = Append(calls, [op |-> op, inst |-> i, input |-> input,
                                       arg |-> arg])
            /\ last' = Did(op, heap[i].guild, i, input, "sent")
       ELSE /\ calls' = calls
            /\ last' = Did(op, heap[i].guild, i, input, r.status)
    /\ UNCHANGED <<websocket, wsOpen, nws, players, heap, limbo, unlimbo_tasks,
                   utask, shardOpen, monitors, processors, events>>

\* Player.connect, to the await in _send.
PlayerConnect(i, channel_id) ==
    Command("connect", i, channel_id, channel_id,
            discord_connect(heap[i].guild, channel_id))

\* Player.disconnect, to the await in _send.
PlayerDisconnect(i) ==
    Command("disconnect", i, 0, 0, discord_disconnect(heap[i].guild))

\* Player.play.
PlayerPlay(i, track) ==
    Command("play", i, track, track,
            discord_play(play_call_args(heap[i].guild, track, 0, None)))

\* Player.set_pause: nothing when the state is already set, else to the
\* await in _send.
set_pause_never_noop(p, pause) == FALSE

set_pause_noop(p, pause) == pause = p.paused

PlayerSetPause(i, pause) ==
    IF set_pause_noop(heap[i], pause)
    THEN /\ Wrote(<<>>)
         /\ last' = Did("set_pause", heap[i].guild, i, pause, "noop")
         /\ UNCHANGED <<websocket, wsOpen, nws, players, heap, limbo,
                        unlimbo_tasks, utask, shardOpen, monitors, processors,
                        events, calls>>
    ELSE Command("set_pause", i, pause, pause, discord_pause(heap[i].guild, pause))

\* Player.set_volume, to the await in _send.
PlayerSetVolume(i, volume) ==
    Command("set_volume", i, volume, discord_volume(heap[i].guild, volume).level,
            discord_volume(heap[i].guild, volume).sent)

\* Player.stop, to the await in _send.
PlayerStop(i) ==
    Command("stop", i, 0, 0, discord_stop(heap[i].guild))

\* Player.seek, to the await in _send.
PlayerSeek(i, position) ==
    Command("seek", i, position, position, discord_seek(heap[i].guild, position))

\* The assignments after the send, with disconnect's `self._channel = None`
\* lost.
after_send_keeps_channel(c) ==
    CASE c.op = "connect"    -> [heap EXCEPT ![c.inst].channel = Some(c.arg)]
      [] c.op = "disconnect" -> heap
      [] c.op = "play"       -> [heap EXCEPT ![c.inst].playing = TRUE]
      [] c.op = "set_pause"  -> [heap EXCEPT ![c.inst].paused = c.arg]
      [] c.op = "set_volume" -> [heap EXCEPT ![c.inst].volume = c.arg]
      [] c.op = "stop"       -> [heap EXCEPT ![c.inst].playing = FALSE]
      [] c.op = "seek"       -> heap

\* The assignment a Player method makes when its send has returned.
after_send(c) ==
    CASE c.op = "connect"    -> [heap EXCEPT ![c.inst].channel = Some(c.arg)]
      [] c.op = "disconnect" -> [heap EXCEPT ![c.inst].channel = None]
      [] c.op = "play"       -> [heap EXCEPT ![c.inst].playing = TRUE]
      [] c.op = "set_pause"  -> [heap EXCEPT ![c.inst].paused = c.arg]
      [] c.op = "set_volume" -> [heap EXCEPT ![c.inst].volume = c.arg]
      [] c.op = "stop"       -> [heap EXCEPT ![c.inst].playing = FALSE]
      [] c.op = "seek"       -> heap

\* A Player method of the application, from its send returning to its end.
PlayerReturn(k) ==
    /\ k \in 1 .. Len(calls)
    /\ calls[k].op # "Connection.disconnect"
    /\ heap' = after_send(calls[k])
    /\ calls' = RemoveAt(calls, k)
    /\ Wrote(<<>>)
    /\ last' = Did(calls[k].op, heap[calls[k].inst].guild, calls[k].inst,
                   calls[k].input, "ok")
    /\ UNCHANGED <<websocket, wsOpen, nws, players, limbo, unlimbo_tasks, utask,
                   shardOpen, monitors, processors, events>>

\* Player.track_callback's setter.
SetTrackCallback(i, c) ==
    /\ heap' = [heap EXCEPT ![i].track_callback = c]
    /\ Wrote(<<>>)
    /\ last' = Did("track_callback", heap[i].guild, i, c, "ok")
    /\ UNCHANGED <<websocket, wsOpen, nws, players, limbo, unlimbo_tasks, utask,
                   shardOpen, monitors, processors, events, calls>>

\* ------------------------------------------- voice-session listener
\* Raw gateway payloads handed to on_socket_response: nothing, a dispatch
\* (op 0) of VOICE_SERVER_UPDATE or of another type, and a payload of another
\* op (11, a heartbeat ack). guild_id is a string in the gateway's JSON.
RawEvents ==
    [empty : {TRUE}, op : {0}, t : {""}, d : {[guild_id |-> ""]}]
    \cup [empty : {FALSE}, op : {0, 11},
          t : {"VOICE_SERVER_UPDATE", "VOICE_STATE_UPDATE"},
          d : {[guild_id |-> "5"]}]
\* session_id of the bot's voice state in the guild, from the framework's
\* cache.
SessionIds == {"s1"}

\* _handler without the test of data['t'].
handler_no_type_filter(data, session_id) ==
    IF ~connected THEN [status |-> "ignored", wire |-> <<>>]
    ELSE IF data.empty THEN [status |-> "ignored", wire |-> <<>>]
    ELSE IF data.op # 0 THEN [status |-> "ignored", wire |-> <<>>]
    ELSE send([op |-> "voiceUpdate", guildId |-> data.d.guild_id,
               sessionId |-> session_id, event |-> data.d])

\* Connection._handler: the early returns, else the voiceUpdate envelope
\* handed to _send.
handler(data, session_id) ==
    IF ~connected THEN [status |-> "ignored", wire |-> <<>>]
    ELSE IF data.empty THEN [status |-> "ignored", wire |-> <<>>]
    ELSE IF data.op # 0 THEN [status |-> "ignored", wire |-> <<>>]
    ELSE IF data.t # "VOICE_SERVER_UPDATE"
    THEN [status |-> "ignored", wire |-> <<>>]
    ELSE send([op |-> "voiceUpdate", guildId |-> data.d.guild_id,
               sessionId |-> session_id, event |-> data.d])

\* The framework calls _handler with a raw payload; nothing follows the
\* await of _send in it.
Handler(data, session_id) ==
    /\ Wrote(handler(data, session_id).wire)
    /\ last' = Did("_handler", 0, 0, data,
                   IF handler(data, session_id).status = "ok" THEN "sent"
                   ELSE handler(data, session_id).status)
    /\ UNCHANGED <<websocket, wsOpen, nws, players, heap, limbo, unlimbo_tasks,
                   utask, shardOpen, monitors, processors, events, calls>>

\* ------------------------------------------------ event dispatch loop
\* Inbound envelopes of Lavalink that the loop acts on.
Inbound ==
    [op : {"playerUpdate"}, guildId : GuildIds, position : Positions, type : {""}]
    \cup [op : {"event"}, guildId : GuildIds, position : {0},
          type : {"TrackEndEvent", "TrackStartEvent"}]

\* _lava_event_processor, `while self.connected`: the loop reads the current
\* websocket next, or ends.
loop_again(proc) ==
    IF connected THEN [pc |-> "recv", ws |-> websocket[1]]
    ELSE [pc |-> "done", ws |-> proc.ws]

\* _lava_event_processor: one envelope received and dispatched.
LavaRecv(k, data) ==
    /\ k \in 1 .. Len(processors)
    /\ processors[k].pc = "recv"
    /\ processors[k].ws \in wsOpen
    /\ CanGetPlayer(data.guildId)
    /\ LET r == get_player(data.guildId)
       IN  /\ players' = r.players
           /\ IF data.op = "playerUpdate"
              THEN /\ heap' = [r.heap EXCEPT ![r.player].position =
                                    Some(data.position \div 1000)]
                   /\ events' = events
              ELSE /\ Len(events) < MaxEvents
                   /\ heap' = r.heap
                   /\ events' = Append(events, [pc |-> "scheduled",
                                    inst |-> r.player, data |-> data, invoked |-> 0])
           /\ last' = Did("lava_" \o data.op, data.guildId, r.player, k, "ok")
    /\ processors' = [processors EXCEPT ![k] = loop_again(processors[k])]
    /\ Wrote(<<>>)
    /\ UNCHANGED <<websocket, wsOpen, nws, limbo, unlimbo_tasks, utask,
                   shardOpen, monitors, calls>>

\* _lava_event_processor: recv raises ConnectionClosed and the loop returns.
LavaClosed(k) ==
    /\ k \in 1 .. Len(processors)
    /\ processors[k].pc = "recv"
    /\ processors[k].ws \notin wsOpen
    /\ processors' = [processors EXCEPT ![k].pc = "done"]
    /\ Wrote(<<>>)
    /\ last' = Did("lava_closed", 0, 0, k, "ok")
    /\ UNCHANGED <<websocket, wsOpen, nws, players, heap, limbo, unlimbo_tasks,
                   utask, shardOpen, monitors, events, calls>>

\* _process_event with `self._position = None` lost.
process_event_keeps_position(p, data) ==
    IF data.op # "event" \/ data.type # "TrackEndEvent"
    THEN [player |-> p, invoked |-> 0, awaits |-> FALSE]
    ELSE [player |-> [p EXCEPT !.playing = FALSE],
          invoked |-> IF p.track_callback = "None" THEN 0 ELSE 1,
          awaits |-> p.track_callback = "async"]

\* Player._process_event, to the await of the callback's result: the player
\* after it, how often the callback was called, and whether its result is
\* awaited.
process_event(p, data) ==
    IF data.op # "event" \/ data.type # "TrackEndEvent"
    THEN [player |-> p, invoked |-> 0, awaits |-> FALSE]
    ELSE [player |-> [p EXCEPT !.playing = FALSE, !.position = None],
          invoked |-> IF p.track_callback = "None" THEN 0 ELSE 1,
          awaits |-> p.track_callback = "async"]

\* A scheduled Player._process_event task runs.
ProcessEvent(k) ==
    /\ k \in 1 .. Len(events)
    /\ events[k].pc = "scheduled"
    /\ LET e == events[k]
           r == process_event(heap[e.inst], e.data)
       IN  /\ heap' = [heap EXCEPT ![e.inst] = r.player]
           /\ events' = IF r.awaits
                         THEN [events EXCEPT ![k].pc = "awaiting",
                                             ![k].invoked = r.invoked]
                         ELSE RemoveAt(events, k)
           /\ last' = Did(e.data.type, heap[e.inst].guild, e.inst, r.invoked,
                          IF r.awaits THEN "awaiting" ELSE "done")
    /\ Wrote(<<>>)
    /\ UNCHANGED <<websocket, wsOpen, nws, players, limbo, unlimbo_tasks, utask,
                   shardOpen, monitors, processors, calls>>

\* Player._process_event, from the awaited callback finishing.
ProcessEventDone(k) ==
    /\ k \in 1 .. Len(events)
    /\ events[k].pc = "awaiting"
    /\ events' = RemoveAt(events, k)
    /\ Wrote(<<>>)
    /\ last' = Did(events[k].data.type, heap[events[k].inst].guild,
                   events[k].inst, events[k].invoked, "finished")
    /\ UNCHANGED <<websocket, wsOpen, nws, players, heap, limbo, unlimbo_tasks,
                   utask, shardOpen, monitors, processors, calls>>

\* ------------------------------------------------ shard health monitor
\* The Discord gateway websocket of a shard closes / is open again.
ShardDown(s) ==
    /\ s \in shardOpen
    /\ shardOpen' = shardOpen \ {s}
    /\ Wrote(<<>>)
    /\ last' = Did("shard_down", 0, 0, s, "ok")
    /\ UNCHANGED <<websocket, wsOpen, nws, players, heap, limbo, unlimbo_tasks,
                   utask, monitors, processors, events, calls>>

ShardUp(s) ==
    /\ s \in Shards \ shardOpen
    /\ shardOpen' = shardOpen \cup {s}
    /\ Wrote(<<>>)
    /\ last' = Did("shard_up", 0, 0, s, "ok")
    /\ UNCHANGED <<websocket, wsOpen, nws, players, heap, limbo, unlimbo_tasks,
                   utask, monitors, processors, events, calls>>

\* _discord_connection_handler.panicking
panicking(shard_id) == shard_id \notin shardOpen

\* _discord_connection_handler, `for guild in tuple(self._players)` from the
\* guilds `todo` on, to the first guild it acts on: L is _limbo and H the
\* Player objects as the step has left them so far.
RECURSIVE monitor_scan(_, _, _, _)
monitor_scan(todo, shards_panicking, L, H) ==
    IF todo = <<>> THEN [kind |-> "end"]
    ELSE LET guild == Head(todo)
         IN  IF DictHas(L, guild)
             THEN monitor_scan(Tail(todo), shards_panicking, L, H)
             ELSE IF ShardOf(guild) \notin shards_panicking
             THEN monitor_scan(Tail(todo), shards_panicking, L, H)
             ELSE IF ~DictHas(players, guild)
             THEN [kind |-> "KeyError"]
             ELSE IF H[DictVal(players, guild)].channel = None
             THEN monitor_scan(Tail(todo), shards_panicking, L, H)
             ELSE [kind |-> "disconnect", guild |-> guild,
                   inst |-> DictVal(players, guild),
                   ch |-> H[DictVal(players, guild)].channel[1],
                   todo |-> Tail(todo)]

\* The monitor from a point of its for loop to its next await (the send of
\* player.disconnect(), or the sleep of the next cycle) or to its end: the
\* task, what it wrote, and how the step ended.
monitor_run(todo, shards_panicking, L, H) ==
    LET r == monitor_scan(todo, shards_panicking, L, H)
    IN  CASE r.kind = "end" ->
                 [mon |-> [NewMonitor EXCEPT !.pc = IF connected THEN "sleep"
                                                    ELSE "done"],
                  wire |-> <<>>, status |-> "end"]
          [] r.kind = "KeyError" ->
                 [mon |-> [NewMonitor EXCEPT !.pc = "dead"],
                  wire |-> <<>>, status |-> "KeyError"]
          [] r.kind = "disconnect" ->
                 IF discord_disconnect(r.guild).status = "ok"
                 THEN [mon |-> [pc |-> "disconnect",
                                panicking |-> shards_panicking, todo |-> r.todo,
                                guild |-> r.guild, inst |-> r.inst, ch |-> r.ch],
                       wire |-> discord_disconnect(r.guild).wire,
                       status |-> "sent"]
                 ELSE [mon |-> [NewMonitor EXCEPT !.pc = "dead"],
                       wire |-> <<>>, status |-> "Disconnected"]

\* The limbo entry without the channel: `actions = []` for `actions = [ch]`.
limbo_put_no_channel(guild, actions) ==
    [limbo |-> DictSet(limbo, guild, Tail(actions)),
     unlimbo_tasks |-> unlimbo_tasks \cup {ShardOf(guild)},
     utask |-> IF ShardOf(guild) \in unlimbo_tasks THEN utask
               ELSE [utask EXCEPT ![ShardOf(guild)] = [NoTask EXCEPT !.pc = "poll"]]]

\* `self._limbo[guild] = actions` and the _unlimbo_shard task created when
\* the shard has none.
limbo_put(guild, actions) ==
    [limbo |-> DictSet(limbo, guild, actions),
     unlimbo_tasks |-> unlimbo_tasks \cup {ShardOf(guild)},
     utask |-> IF ShardOf(guild) \in unlimbo_tasks THEN utask
               ELSE [utask EXCEPT ![ShardOf(guild)] = [NoTask EXCEPT !.pc = "poll"]]]

\* The task starts: `while self.connected`, then the sleep.
MonStart(k) ==
    /\ k \in 1 .. Len(monitors)
    /\ monitors[k].pc = "loop"
    /\ monitors' = [monitors EXCEPT ![k].pc = IF connected THEN "sleep" ELSE "done"]
    /\ Wrote(<<>>)
    /\ last' = Did("monitor", 0, 0, k, "start")
    /\ UNCHANGED <<websocket, wsOpen, nws, players, heap, limbo, unlimbo_tasks,
                   utask, shardOpen, processors, events, calls>>

\* From the sleep: the shards of the registered players that are down, and
\* the for loop over the players when there is one.
MonWake(k) ==
    /\ k \in 1 .. Len(monitors)
    /\ monitors[k].pc = "sleep"
    /\ LET shards_to_check == {ShardOf(x) : x \in DictKeys(players)}
           shards_panicking == {x \in shards_to_check : panicking(x)}
           r == monitor_run(IF shards_panicking # {} THEN DictKeySeq(players)
                            ELSE <<>>, shards_panicking, limbo, heap)
       IN  /\ monitors' = [monitors EXCEPT ![k] = r.mon]
           /\ Wrote(r.wire)
           /\ last' = Did("monitor", r.mon.guild, r.mon.inst, k, r.status)
    /\ UNCHANGED <<websocket, wsOpen, nws, players, heap, limbo, unlimbo_tasks,
                   utask, shardOpen, processors, events, calls>>

\* From player.disconnect()'s send returning: the channel cleared, then
\* set_pause(True) to its send, or the limbo entry and on with the loop.
MonAfterDisconnect(k) ==
    /\ k \in 1 .. Len(monitors)
    /\ monitors[k].pc = "disconnect"
    /\ LET m == monitors[k]
           H == [heap EXCEPT ![m.inst].channel = None]
       IN  IF ~paused(H[m.inst])
           THEN /\ heap' = H
                /\ Wrote(discord_pause(m.guild, TRUE).wire)
                /\ monitors' = [monitors EXCEPT ![k] =
                      IF discord_pause(m.guild, TRUE).status = "ok"
                      THEN [m EXCEPT !.pc = "pause"]
                      ELSE [NewMonitor EXCEPT !.pc = "dead"]]
                /\ last' = Did("monitor", m.guild, m.inst, k,
                      IF discord_pause(m.guild, TRUE).status = "ok"
                      THEN "sent" ELSE "Disconnected")
                /\ UNCHANGED <<limbo, unlimbo_tasks, utask>>
           ELSE LET put == limbo_put(m.guild, <<m.ch>>)
                    r == monitor_run(m.todo, m.panicking, put.limbo, H)
                IN  /\ heap' = H
                    /\ limbo' = put.limbo
                    /\ unlimbo_tasks' = put.unlimbo_tasks
                    /\ utask' = put.utask
                    /\ monitors' = [monitors EXCEPT ![k] = r.mon]
                    /\ Wrote(r.wire)
                    /\ last' = Did("monitor", r.mon.guild, r.mon.inst, k, r.status)
    /\ UNCHANGED <<websocket, wsOpen, nws, players, shardOpen, processors,
                   events, calls>>

\* From set_pause(True)'s send returning: the flag set, the limbo entry with
\* op_unpause, and on with the loop.
MonAfterPause(k) ==
    /\ k \in 1 .. Len(monitors)
    /\ monitors[k].pc = "pause"
    /\ LET m == monitors[k]
           H == [heap EXCEPT ![m.inst].paused = TRUE]
           put == limbo_put(m.guild, <<m.ch, op_unpause>>)
           r == monitor_run(m.todo, m.panicking, put.limbo, H)
       IN  /\ heap' = H
           /\ limbo' = put.limbo
           /\ unlimbo_tasks' = put.unlimbo_tasks
           /\ utask' = put.utask
           /\ monitors' = [monitors EXCEPT ![k] = r.mon]
           /\ Wrote(r.wire)
           /\ last' = Did("monitor", r.mon.guild, r.mon.inst, k, r.status)
    /\ UNCHANGED <<websocket, wsOpen, nws, players, shardOpen, processors,
                   events, calls>>

\* ------------------------------------------------------ shard recovery
\* _unlimbo_shard, `for guild in tuple(self._limbo)` from the guilds `todo`
\* on, to the first guild it reconnects: L is _limbo as the step has left it.
RECURSIVE unlimbo_scan(_, _, _)
unlimbo_scan(shard_id, todo, L) ==
    IF todo = <<>> THEN [kind |-> "end", limbo |-> L]
    ELSE LET guild == Head(todo)
         IN  IF ShardOf(guild) # shard_id
             THEN unlimbo_scan(shard_id, Tail(todo), L)
             ELSE IF ~DictHas(L, guild)
             THEN [kind |-> "KeyError", limbo |-> L]
             ELSE IF ~DictHas(players, guild)
             THEN unlimbo_scan(shard_id, Tail(todo), DictPop(L, guild))
             ELSE [kind |-> "connect", limbo |-> DictPop(L, guild),
                   guild |-> guild, inst |-> DictVal(players, guild),
                   actions |-> DictVal(L, guild), todo |-> Tail(todo)]

\* The entry the recovery reconnects from, read at the wrong end:
\* actions[-1] for actions[0].
reconnect_channel_last(actions) == actions[Len(actions)]

\* player.connect(actions[0]): the channel the recovery reconnects to.
reconnect_channel(actions) == actions[1]

\* `if op_unpause in actions`
wants_unpause(actions) == op_unpause \in Range(actions)

\* The recovery task from a point of its for loop to its next await (the
\* send of player.connect(actions[0])) or to its end: the task, _limbo,
\* _unlimbo_tasks, the Player objects, and what it wrote.
unlimbo_run(shard_id, todo, L, H) ==
    LET r == unlimbo_scan(shard_id, todo, L)
    IN  CASE r.kind = "end" ->
                 [task |-> NoTask, limbo |-> r.limbo,
                  unlimbo_tasks |-> unlimbo_tasks \ {shard_id},
                  heap |-> H, wire |-> <<>>, status |-> "end"]
          [] r.kind = "KeyError" ->
                 [task |-> [NoTask EXCEPT !.pc = "dead"], limbo |-> r.limbo,
                  unlimbo_tasks |-> unlimbo_tasks,
                  heap |-> H, wire |-> <<>>, status |-> "KeyError"]
          [] r.kind = "connect" ->
                 [task |-> IF discord_connect(r.guild, reconnect_channel(r.actions)).status = "ok"
                           THEN [pc |-> "connect", todo |-> r.todo,
                                 guild |-> r.guild, inst |-> r.inst,
                                 actions |-> r.actions]
                           ELSE [NoTask EXCEPT !.pc = "dead"],
                  limbo |-> r.limbo,
                  unlimbo_tasks |-> unlimbo_tasks,
                  heap |-> H,
                  wire |-> discord_connect(r.guild, reconnect_channel(r.actions)).wire,
                  status |-> IF discord_connect(r.guild, reconnect_channel(r.actions)).status = "ok"
                             THEN "sent" ELSE "Disconnected"]

\* A step of the recovery task of shard s that ends as `r` says.
UnlimboStep(s, r) ==
    /\ utask' = [utask EXCEPT ![s] = r.task]
    /\ limbo' = r.limbo
    /\ unlimbo_tasks' = r.unlimbo_tasks
    /\ heap' = r.heap
    /\ Wrote(r.wire)
    /\ last' = Did("unlimbo", r.task.guild, r.task.inst, s, r.status)
    /\ UNCHANGED <<websocket, wsOpen, nws, players, shardOpen, monitors,
                   processors, events, calls>>

\* The polling loop finds the shard's websocket open, and waits for READY
\* and the five seconds after it.
UnlimboPoll(s) ==
    /\ utask[s].pc = "poll"
    /\ ~panicking(s)
    /\ utask' = [utask EXCEPT ![s].pc = "settle"]
    /\ Wrote(<<>>)
    /\ last' = Did("unlimbo", 0, 0, s, "ready")
    /\ UNCHANGED <<websocket, wsOpen, nws, players, heap, limbo, unlimbo_tasks,
                   shardOpen, monitors, processors, events, calls>>

\* From the sleep after READY: the for loop over tuple(self._limbo).
UnlimboStart(s) ==
    /\ utask[s].pc = "settle"
    /\ UnlimboStep(s, unlimbo_run(s, DictKeySeq(limbo), limbo, heap))

\* From player.connect()'s send returning: the channel set, then
\* set_pause(False) to its send when the entry holds op_unpause and the
\* player is paused, or on with the loop.
UnlimboAfterConnect(s) ==
    /\ utask[s].pc = "connect"
    /\ LET t == utask[s]
           H == [heap EXCEPT ![t.inst].channel = Some(reconnect_channel(t.actions))]
       IN  IF wants_unpause(t.actions) /\ ~set_pause_noop(H[t.inst], FALSE)
           THEN UnlimboStep(s,
                  [task |-> IF discord_pause(t.guild, FALSE).status = "ok"
                            THEN [t EXCEPT !.pc = "pause"]
                            ELSE [NoTask EXCEPT !.pc = "dead"],
                   limbo |-> limbo, unlimbo_tasks |-> unlimbo_tasks, heap |-> H,
                   wire |-> discord_pause(t.guild, FALSE).wire,
                   status |-> IF discord_pause(t.guild, FALSE).status = "ok"
                              THEN "sent" ELSE "Disconnected"])
           ELSE UnlimboStep(s, unlimbo_run(s, t.todo, limbo, H))

\* From set_pause(False)'s send returning: the flag cleared, on with the loop.
UnlimboAfterPause(s) ==
    /\ utask[s].pc = "pause"
    /\ UnlimboStep(s, unlimbo_run(s, utask[s].todo, limbo,
                                  [heap EXCEPT ![utask[s].inst].paused = FALSE]))

\* The Player objects the registry holds.
Registered == {players[k][2] : k \in 1 .. Len(players)}

\* The connection's life cycle, as the application and the network drive it.
Lifecycle ==
    \/ ConnConnect
    \/ ConnDisconnectCall
    \/ \E k \in 1 .. MaxCalls : ConnDisconnectReturn(k)
    \/ \E w \in 1 .. MaxConn : TransportClose(w)

\* The application's commands on the registered player of a guild, with
\* the connection's life cycle.
CommandNext ==
    \/ \E g \in {5} : GetPlayer(g)
    \/ Lifecycle
    \/ \E i \in Registered, c \in Channels : PlayerConnect(i, c)
    \/ \E i \in Registered : PlayerDisconnect(i)
    \/ \E i \in Registered, t \in Tracks : PlayerPlay(i, t)
    \/ \E i \in Registered, b \in BOOLEAN : PlayerSetPause(i, b)
    \/ \E i \in Registered, v \in VolumeArgs : PlayerSetVolume(i, v)
    \/ \E i \in Registered : PlayerStop(i)
    \/ \E i \in Registered, p \in Positions : PlayerSeek(i, p)
    \/ \E k \in 1 .. MaxCalls : PlayerReturn(k)

CommandSpec == Init /\ [][CommandNext]_vars

\* The registry: get_player from the application and from the dispatch loop
\* (playerUpdate envelopes), with the connection's life cycle.
RegistryNext ==
    \/ \E g \in GuildIds : GetPlayer(g)
    \/ Lifecycle
    \/ \E k \in 1 .. MaxConn :
          \E d \in {e \in Inbound : e.op = "playerUpdate"} : LavaRecv(k, d)
    \/ \E k \in 1 .. MaxConn : LavaClosed(k)

RegistrySpec == Init /\ [][RegistryNext]_vars

\* The dispatch loop and the event tasks it schedules, with the track
\* callback and the connection's life cycle.
EventNext ==
    \/ \E g \in {5} : GetPlayer(g)
    \/ Lifecycle
    \/ \E i \in Registered, c \in Callbacks \cup {"None"} : SetTrackCallback(i, c)
    \/ \E k \in 1 .. MaxConn :
          \E d \in {e \in Inbound : e.guildId \in {5, 4194305}} : LavaRecv(k, d)
    \/ \E k \in 1 .. MaxConn : LavaClosed(k)
    \/ \E k \in 1 .. MaxEvents : ProcessEvent(k) \/ ProcessEventDone(k)

EventSpec == Init /\ [][EventNext]_vars

\* The shard monitor and the recovery tasks, with the players of a guild of
\* each shard that connect to a channel and pause, and the connection's life
\* cycle; shard 1 is the shard that goes down.
ShardNext ==
    \/ \E g \in {5, 4194305} : GetPlayer(g)
    \/ (nws < MaxShardConn /\ ConnConnect)
    \/ ConnDisconnectCall
    \/ \E k \in 1 .. MaxCalls : ConnDisconnectReturn(k)
    \/ \E w \in 1 .. MaxConn : TransportClose(w)
    \/ \E i \in Registered, c \in {7} : PlayerConnect(i, c)
    \/ \E i \in Registered, b \in BOOLEAN : PlayerSetPause(i, b)
    \/ \E k \in 1 .. MaxCalls : PlayerReturn(k)
    \/ \E s \in {1} : ShardDown(s) \/ ShardUp(s)
    \/ \E k \in 1 .. MaxConn :
          MonStart(k) \/ MonWake(k) \/ MonAfterDisconnect(k) \/ MonAfterPause(k)
    \/ \E s \in {1} :
          \/ UnlimboPoll(s) \/ UnlimboStart(s)
          \/ UnlimboAfterConnect(s) \/ UnlimboAfterPause(s)

ShardSpec == Init /\ [][ShardNext]_vars

\* The shard monitor and the recovery tasks with both shards going down and
\* coming back, the players of a guild of each shard that connect to a
\* channel, and the connection's life cycle.
RecoveryNext ==
    \/ \E g \in {5, 4194305} : GetPlayer(g)
    \/ (nws < MaxShardConn /\ ConnConnect)
    \/ ConnDisconnectCall
    \/ \E k \in 1 .. MaxCalls : ConnDisconnectReturn(k)
    \/ \E w \in 1 .. MaxConn : TransportClose(w)
    \/ \E i \in Registered, c \in {7} : PlayerConnect(i, c)
    \/ \E k \in 1 .. MaxCalls : PlayerReturn(k)
    \/ \E s \in Shards : ShardDown(s) \/ ShardUp(s)
    \/ \E k \in 1 .. MaxConn :
          MonStart(k) \/ MonWake(k) \/ MonAfterDisconnect(k) \/ MonAfterPause(k)
    \/ \E s \in Shards :
          \/ UnlimboPoll(s) \/ UnlimboStart(s)
          \/ UnlimboAfterConnect(s) \/ UnlimboAfterPause(s)

RecoverySpec == Init /\ [][RecoveryNext]_vars

\* The voice-session listener with the connection's life cycle and a player
\* that connects to channels.
VoiceNext ==
    \/ \E g \in {5} : GetPlayer(g)
    \/ Lifecycle
    \/ \E i \in Registered, c \in Channels : PlayerConnect(i, c)
    \/ \E k \in 1 .. MaxCalls : PlayerReturn(k)
    \/ \E data \in RawEvents, sid \in SessionIds : Handler(data, sid)

VoiceSpec == Init /\ [][VoiceNext]_vars

\* No outage is being handled: no guild is in limbo, no recovery task
\* exists, and no monitor is inside its pass over the players.
Quiet ==
    /\ limbo = <<>>
    /\ unlimbo_tasks = {}
    /\ \A k \in 1 .. Len(monitors) : monitors[k].pc \notin {"disconnect", "pause"}

\* One outage of shard 1 at a time, each followed by its recovery, with no
\* application command between the outage and the end of its recovery: the
\* application connects and pauses players and disconnects the Connection
\* only while all shards are up and no outage is being handled, and the
\* shard goes down only then and with no application call in flight. The
\* Lavalink transport can close, and the application can connect again, at
\* any time.
RoundTripNext ==
    \/ \E g \in {5, 4194305} : GetPlayer(g)
    \/ ConnConnect
    \/ (Quiet /\ shardOpen = Shards /\ ConnDisconnectCall)
    \/ \E k \in 1 .. MaxCalls : ConnDisconnectReturn(k)
    \/ \E w \in 1 .. MaxConn : TransportClose(w)
    \/ \E i \in Registered, c \in {7} :
          Quiet /\ shardOpen = Shards /\ PlayerConnect(i, c)
    \/ \E i \in Registered, b \in BOOLEAN :
          Quiet /\ shardOpen = Shards /\ PlayerSetPause(i, b)
    \/ \E k \in 1 .. MaxCalls : PlayerReturn(k)
    \/ \E s \in {1} : (Quiet /\ calls = <<>> /\ ShardDown(s)) \/ ShardUp(s)
    \/ \E k \in 1 .. MaxConn :
          MonStart(k) \/ MonWake(k) \/ MonAfterDisconnect(k) \/ MonAfterPause(k)
    \/ \E s \in {1} :
          \/ UnlimboPoll(s) \/ UnlimboStart(s)
          \/ UnlimboAfterConnect(s) \/ UnlimboAfterPause(s)

RoundTripSpec == Init /\ [][RoundTripNext]_vars

\* The tasks that call set_pause on a Player: the application, the monitor
\* (set_pause(True)) and the recovery of shard 1 (set_pause(False)), on one
\* connection whose transport can close; the registry is not cleared.
PauseNext ==
    \/ \E g \in {5, 4194305} : GetPlayer(g)
    \/ (nws < MaxShardConn /\ ConnConnect)
    \/ \E w \in 1 .. MaxConn : TransportClose(w)
    \/ \E i \in Registered, c \in {7} : PlayerConnect(i, c)
    \/ \E i \in Registered, b \in BOOLEAN : PlayerSetPause(i, b)
    \/ \E k \in 1 .. MaxCalls : PlayerReturn(k)
    \/ \E s \in {1} : ShardDown(s) \/ ShardUp(s)
    \/ \E k \in 1 .. MaxConn :
          MonStart(k) \/ MonWake(k) \/ MonAfterDisconnect(k) \/ MonAfterPause(k)
    \/ \E s \in {1} :
          \/ UnlimboPoll(s) \/ UnlimboStart(s)
          \/ UnlimboAfterConnect(s) \/ UnlimboAfterPause(s)

PauseSpec == PauseInit /\ [][PauseNext]_vars

\* The two loops that Connection.connect starts, with one connection that is
\* opened and lost, the players of a guild of each shard, shard 1 going down
\* and coming back, and playerUpdate envelopes for the dispatch loop.
LoopNext ==
    \/ \E g \in {5, 4194305} : GetPlayer(g)
    \/ (nws < MaxShardConn /\ ConnConnect)
    \/ ConnDisconnectCall
    \/ \E k \in 1 .. MaxCalls : ConnDisconnectReturn(k)
    \/ \E w \in 1 .. MaxConn : TransportClose(w)
    \/ \E i \in Registered, c \in {7} : PlayerConnect(i, c)
    \/ \E k \in 1 .. MaxCalls : PlayerReturn(k)
    \/ \E s \in {1} : ShardDown(s) \/ ShardUp(s)
    \/ \E k \in 1 .. MaxConn :
          \/ LavaRecv(k, [op |-> "playerUpdate", guildId |-> 4194305,
                          position |-> 3000, type |-> ""])
          \/ LavaClosed(k)
    \/ \E k \in 1 .. MaxConn :
          MonStart(k) \/ MonWake(k) \/ MonAfterDisconnect(k) \/ MonAfterPause(k)
    \/ \E s \in {1} :
          \/ UnlimboPoll(s) \/ UnlimboStart(s)
          \/ UnlimboAfterConnect(s) \/ UnlimboAfterPause(s)

\* The event loop runs every task that is ready: the monitor's sleep ends,
\* its sends return, and recv on a closed websocket raises.
LoopFairness ==
    \A k \in 1 .. MaxConn :
        /\ WF_vars(LavaClosed(k))
        /\ WF_vars(MonStart(k))
        /\ WF_vars(MonWake(k))
        /\ WF_vars(MonAfterDisconnect(k))
        /\ WF_vars(MonAfterPause(k))

LoopSpec == Init /\ [][LoopNext]_vars /\ LoopFairness

\* The monitor and the recovery of shard 1 with the players of two guilds of
\* that shard, on one control connection that stays open, shard 1 going down
\* and coming back any number of times. The application connects players
\* only while all shards are up and no outage is being handled.
LimboNext ==
    \/ \E g \in {4194305, 12582913} : GetPlayer(g)
    \/ (nws < MaxShardConn /\ ConnConnect)
    \/ \E i \in Registered, c \in {7} :
          Quiet /\ shardOpen = Shards /\ PlayerConnect(i, c)
    \/ \E k \in 1 .. MaxCalls : PlayerReturn(k)
    \/ \E s \in {1} : ShardDown(s) \/ ShardUp(s)
    \/ \E k \in 1 .. MaxShardConn :
          MonStart(k) \/ MonWake(k) \/ MonAfterDisconnect(k) \/ MonAfterPause(k)
    \/ \E s \in {1} :
          \/ UnlimboPoll(s) \/ UnlimboStart(s)
          \/ UnlimboAfterConnect(s) \/ UnlimboAfterPause(s)

\* The event loop runs every task that is ready: the sleeps of the monitor
\* and of the recovery end, and their sends and the application's return.
LimboFairness ==
    /\ \A k \in 1 .. MaxCalls : WF_vars(PlayerReturn(k))
    /\ \A k \in 1 .. MaxShardConn :
          /\ WF_vars(MonStart(k))
          /\ WF_vars(MonWake(k))
          /\ WF_vars(MonAfterDisconnect(k))
          /\ WF_vars(MonAfterPause(k))
    /\ \A s \in {1} :
          /\ WF_vars(UnlimboPoll(s))
          /\ WF_vars(UnlimboStart(s))
          /\ WF_vars(UnlimboAfterConnect(s))
          /\ WF_vars(UnlimboAfterPause(s))

LimboSpec == Init /\ [][LimboNext]_vars /\ LimboFairness

\* Connection.connect and Connection.disconnect called in any order, with the
\* two loops that each connect starts: the dispatch loops receive
\* playerUpdate envelopes or find their websocket closed, the monitors start
\* and wake; all shards stay up.
ConnectNext ==
    \/ \E g \in {5} : GetPlayer(g)
    \/ Lifecycle
    \/ \E k \in 1 .. MaxConn :
          \/ LavaRecv(k, [op |-> "playerUpdate", guildId |-> 5,
                          position |-> 3000, type |-> ""])
          \/ LavaClosed(k)
    \/ \E k \in 1 .. MaxConn : MonStart(k) \/ MonWake(k)

ConnectSpec == Init /\ [][ConnectNext]_vars

\* ================================================================ claims
\* The steps in which a Player method is called (not those in which a
\* suspended one returns).
IsCall(l, ops) == l.op \in ops /\ l.status # "ok"

\* The registry holds at most one Player per guild, no Player twice, and
\* each under its own guild id.
RegistryWellFormed ==
    /\ \A a, b \in 1 .. Len(players) :
          a # b => players[a][1] # players[b][1] /\ players[a][2] # players[b][2]
    /\ \A a \in 1 .. Len(players) :
          /\ players[a][2] \in 1 .. Len(heap)
          /\ heap[players[a][2]].guild = players[a][1]

\* A get_player(g) call succeeds, returns the Player the registry held for g
\* when it held one, and leaves the one it returned registered under g.
GetPlayerStep ==
    last'.op = "get_player" =>
        /\ last'.status = "ok"
        /\ DictHas(players', last'.guild)
        /\ DictVal(players', last'.guild) = last'.inst
        /\ DictHas(players, last'.guild) =>
              last'.inst = DictVal(players, last'.guild) /\ players' = players

\* The registry only grows, until it is cleared.
RegistryGrowsOrClears ==
    \/ players' = <<>>
    \/ /\ Len(players') >= Len(players)
       /\ SubSeq(players', 1, Len(players)) = players

\* C1: after any get_player, connect and disconnect operations, get_player(g)
\* does not fail, returns the same Player for g on every call between two
\* clearings of the registry, and distinct Players for distinct guild ids:
\* the registry holds at most one Player per guild id.
C1_GetPlayerSameInstance ==
    /\ []RegistryWellFormed
    /\ [][GetPlayerStep /\ RegistryGrowsOrClears]_vars

\* C1's case: get_player returned the Player already registered for its
\* guild while another guild is registered too.
C1_Witness ==
    /\ last.op = "get_player"
    /\ Len(players) >= 2
    /\ last.inst # Len(heap)
    /\ DictVal(players, last.guild) = last.inst

\* C2: whenever Connection.disconnect() completes, the websocket handle is
\* absent, `connected` is false and the registry is empty, so get_player(g)
\* returns, for every guild g, a Player that is none of those constructed
\* before and that is in the default state.
C2_DisconnectClearsRegistry ==
    (last.op = "Connection.disconnect" /\ last.status = "ok") =>
        /\ websocket = None
        /\ ~connected
        /\ players = <<>>
        /\ \A g \in GuildIds :
              /\ get_player(g).player \notin 1 .. Len(heap)
              /\ get_player(g).heap[get_player(g).player] = NewPlayer(g)

\* C2's case: a disconnect completed after a Player was constructed and had
\* left its default state.
C2_Witness ==
    /\ last.op = "Connection.disconnect"
    /\ last.status = "ok"
    /\ Len(heap) = 1
    /\ heap[1] # NewPlayer(heap[1].guild)

\* Envelopes of every kind the Connection sends.
SampleEnvelopes ==
    [op : {"stop", "disconnect"}, guildId : GuildIds]
    \cup [op : {"connect"}, guildId : GuildIds, channelId : Channels]
    \cup [op : {"pause"}, guildId : GuildIds, pause : BOOLEAN]
    \cup [op : {"validationRes"}, guildId : {"5"}, valid : BOOLEAN]

\* C3: in every reachable state where `connected` is false, _send of any
\* envelope fails with Disconnected and writes nothing; a step taken in such
\* a state writes nothing to the transport, and a refused envelope leaves no
\* call suspended that would send it later.
C3_SendRefusedWhenDisconnected ==
    /\ [](~connected =>
            \A data \in SampleEnvelopes :
                send(data) = [status |-> "Disconnected", wire |-> <<>>])
    /\ [][~connected =>
            /\ out' = <<>>
            /\ last'.status # "sent"
            /\ last'.status = "Disconnected" => calls' = calls]_vars

\* C3's case: a command was refused while the handle was present and its
\* transport closed.
C3_Witness ==
    /\ last.op = "stop"
    /\ last.status = "Disconnected"
    /\ websocket # None
    /\ ~connected

\* C4: a set_pause(b) call made when the player's paused flag equals b sends
\* nothing and changes no state; a call that does send sends one pause
\* envelope carrying b, and when it has returned the flag equals b: of
\* set_pause(true) and a second set_pause(true) right after it, only the
\* first sends.
C4_SetPauseDeduplicates ==
    /\ [][(IsCall(last', {"set_pause"}) /\ last'.arg = heap[last'.inst].paused) =>
            /\ last'.status = "noop"
            /\ out' = <<>>
            /\ heap' = heap
            /\ calls' = calls]_vars
    /\ [][(last'.op = "set_pause" /\ last'.status = "sent") =>
            out' = <<[op |-> "pause", guildId |-> ToString(last'.guild),
                      pause |-> last'.arg]>>]_vars
    /\ []((last.op = "set_pause" /\ last.status = "ok") =>
            heap[last.inst].paused = last.arg)

\* C4's case: set_pause(true) on a player that is paused.
C4_Witness ==
    /\ last.op = "set_pause"
    /\ last.status = "noop"
    /\ last.arg = TRUE

\* min(max(v, 0), 150)
Clamped(v) == IF v < 0 THEN 0 ELSE IF v > 150 THEN 150 ELSE v

\* C5: every player's stored volume is in [0, 150]; set_volume(v) sends and
\* stores min(max(v, 0), 150), not the raw input.
C5_VolumeClamped ==
    /\ \A i \in 1 .. Len(heap) : heap[i].volume \in 0 .. 150
    /\ (last.op = "set_volume" /\ last.status = "sent") =>
          out = <<[op |-> "volume", guildId |-> ToString(last.guild),
                   volume |-> Clamped(last.arg)]>>
    /\ (last.op = "set_volume" /\ last.status = "ok") =>
          heap[last.inst].volume = Clamped(last.arg)

\* C5's case: set_volume(200) returned and 150 is stored.
C5_Witness ==
    /\ last.op = "set_volume"
    /\ last.status = "ok"
    /\ last.arg = 200
    /\ heap[last.inst].volume = 150

\* C6: processing a TrackEndEvent leaves the player it was dispatched to
\* with playing false and position None, and calls the track callback once
\* when one is registered and not at all when none is, awaiting the result
\* of an awaitable one.
C6_TrackEndEvent ==
    /\ []((last.op = "TrackEndEvent" /\ last.status \in {"done", "awaiting"}) =>
            /\ ~heap[last.inst].playing
            /\ ~playing(heap[last.inst])
            /\ heap[last.inst].position = None)
    /\ [][(last'.op = "TrackEndEvent" /\ last'.status \in {"done", "awaiting"}) =>
            /\ last'.arg = IF heap[last'.inst].track_callback = "None" THEN 0 ELSE 1
            /\ (last'.status = "awaiting") =
                   (heap[last'.inst].track_callback = "async")]_vars
    /\ []((last.op = "TrackEndEvent" /\ last.status = "finished") => last.arg = 1)

\* C6's case: a TrackEndEvent with an awaitable callback was processed and
\* the callback's result awaited.
C6_Witness ==
    /\ last.op = "TrackEndEvent"
    /\ last.status = "finished"
    /\ last.arg = 1

\* The guilds whose limbo entry the step removes / adds.
LeftLimbo == DictKeys(limbo) \ DictKeys(limbo')
EnteredLimbo == DictKeys(limbo') \ DictKeys(limbo)

\* The connect envelope for guild g and channel c, as written.
ConnectEnvelope(g, c) ==
    [op |-> "connect", guildId |-> ToString(g), channelId |-> ToString(c)]

\* A step of the recovery task of a shard changes no Player and no limbo
\* entry of another shard, and writes envelopes for guilds of its shard only.
RecoveryKeepsToItsShard ==
    last'.op = "unlimbo" =>
        /\ \A i \in 1 .. Len(heap) :
              ShardOf(heap[i].guild) # last'.arg => heap'[i] = heap[i]
        /\ \A g \in DictKeys(limbo) :
              ShardOf(g) # last'.arg =>
                  DictHas(limbo', g) /\ DictVal(limbo', g) = DictVal(limbo, g)
        /\ \A n \in 1 .. Len(out') :
              \E g \in GuildIds :
                  ShardOf(g) = last'.arg /\ out'[n].guildId = ToString(g)

\* The channel a limbo entry records is the one the Player had when the
\* monitor found its shard down.
LimboRecordsChannel ==
    /\ (last'.op = "monitor" /\ monitors'[last'.arg].pc = "disconnect"
          /\ monitors[last'.arg].pc = "sleep") =>
            heap[last'.inst].channel = Some(monitors'[last'.arg].ch)
    /\ \A g \in EnteredLimbo :
          /\ last'.op = "monitor"
          /\ monitors[last'.arg].guild = g
          /\ DictVal(limbo', g)[1] = monitors[last'.arg].ch

CommandOps ==
    {"connect", "disconnect", "play", "set_pause", "stop", "seek", "set_volume"}

\* C9: every command-sending Player method called while the control
\* connection is down fails with Disconnected and sends nothing, for every
\* argument and every state of the Player.
C9_CommandsFailWhenDown ==
    [][(~connected /\ IsCall(last', CommandOps)) =>
          (last'.status = "Disconnected" /\ out' = <<>>)]_vars

\* C10: Player.play called while the control connection is up sends one
\* play envelope for the Player's guild with the track, and the playing flag
\* is true when the call has returned.
C10_PlaySendsAndSetsPlaying ==
    /\ [][(connected /\ IsCall(last', {"play"})) =>
            /\ last'.status = "sent"
            /\ out' = <<[op |-> "play", guildId |-> ToString(last'.guild),
                         track |-> last'.arg]>>]_vars
    /\ []((last.op = "play" /\ last.status = "ok") => heap[last.inst].playing)

\* The flag combinations a Player object can hold.
PlaybackFlags == [paused : BOOLEAN, playing : BOOLEAN]

\* Of the observable stopped, playing and paused of p exactly one holds, with
\* playing false under paused and stopped the absence of both.
OnePlaybackState(p) ==
    /\ paused(p) => ~playing(p)
    /\ stopped(p) = (~playing(p) /\ ~paused(p))
    /\ stopped(p) = (~p.playing /\ ~p.paused)
    /\ \/ stopped(p) /\ ~playing(p) /\ ~paused(p)
       \/ ~stopped(p) /\ playing(p) /\ ~paused(p)
       \/ ~stopped(p) /\ ~playing(p) /\ paused(p)

\* C11: for every Player in every reachable state, and for every value the
\* two flags can take, the observable playing is false whenever paused is
\* true, stopped equals (not playing and not paused), and exactly one of
\* stopped, playing, paused holds.
C11_OnePlaybackState ==
    /\ \A i \in 1 .. Len(heap) : OnePlaybackState(heap[i])
    /\ \A f \in PlaybackFlags : OnePlaybackState(f)

\* C11's case: a Player that set_pause(true) has paused.
C11_Witness ==
    /\ last.op = "set_pause"
    /\ last.status = "ok"
    /\ paused(heap[last.inst])
    /\ ~playing(heap[last.inst])
    /\ ~stopped(heap[last.inst])

\* C12 (as the code has it): when a call of Player.disconnect() returns, the
\* Player's channel_id is null and Player.connected is false; a call made
\* while the control connection is down fails with Disconnected, sends
\* nothing and leaves the channel_id as it was.
C12_DisconnectClearsChannelOnReturn ==
    /\ []((last.op = "disconnect" /\ last.status = "ok") =>
            /\ heap[last.inst].channel = None
            /\ ~playerConnected(heap[last.inst]))
    /\ [][IsCall(last', {"disconnect"}) =>
            /\ heap' = heap
            /\ last'.status = IF connected THEN "sent" ELSE "Disconnected"
            /\ out' = IF connected
                      THEN <<[op |-> "disconnect",
                              guildId |-> ToString(last'.guild)]>>
                      ELSE <<>>]_vars

\* C12's case: disconnect() has returned for a Player, on an open control
\* connection.
C12_Witness ==
    /\ last.op = "disconnect"
    /\ last.status = "ok"
    /\ heap[last.inst].channel = None
    /\ connected

\* C12 (as stated): after every call of Player.disconnect(), however it
\* ends and whatever the state of the control connection, the Player's
\* channel_id is null.
C12_AsStated ==
    (last.op = "disconnect" /\ last.status \in {"ok", "Disconnected"}) =>
        heap[last.inst].channel = None

\* Every loop that connect started has ended, and by leaving its `while` or
\* returning, not by an exception.
LoopsEndedCleanly ==
    /\ \A k \in 1 .. Len(monitors) : monitors[k].pc = "done"
    /\ \A k \in 1 .. Len(processors) : processors[k].pc = "done"

\* Every loop that connect started has ended, one way or the other.
LoopsEnded ==
    /\ \A k \in 1 .. Len(monitors) : monitors[k].pc \in {"done", "dead"}
    /\ \A k \in 1 .. Len(processors) : processors[k].pc = "done"

\* What does hold of the loops: once the connection is lost for good they
\* end, the monitor possibly by an exception.
LoopsEventuallyEnd == (nws > 0 /\ ~connected) ~> LoopsEnded

\* C13: once `connected` has become false and stays false (the one
\* connection of this specification is never replaced), the event-dispatch
\* loop and the shard health monitor loop eventually terminate, and neither
\* ends by an error.
C13_LoopsEndCleanly == (nws > 0 /\ ~connected) ~> LoopsEndedCleanly

\* C14: the voice-session listener writes exactly one voiceUpdate envelope,
\* for the event's guild and with the session id, when it is called while
\* connected with a dispatch (op 0) of type VOICE_SERVER_UPDATE; called with
\* any other payload, or while the control connection is down, it writes
\* nothing and raises nothing; in neither case does it change the state of
\* the Connection or of a Player.
C14_VoiceListener ==
    [][last'.op = "_handler" =>
        /\ UNCHANGED <<websocket, wsOpen, players, heap, limbo, unlimbo_tasks,
                       calls, events>>
        /\ IF /\ connected
              /\ ~last'.arg.empty
              /\ last'.arg.op = 0
              /\ last'.arg.t = "VOICE_SERVER_UPDATE"
           THEN /\ last'.status = "sent"
                /\ Len(out') = 1
                /\ out'[1].op = "voiceUpdate"
                /\ out'[1].guildId = last'.arg.d.guild_id
                /\ out'[1].sessionId \in SessionIds
                /\ out'[1].event = last'.arg.d
           ELSE /\ last'.status = "ignored"
                /\ out' = <<>>]_vars

\* C14's case: the listener has forwarded a VOICE_SERVER_UPDATE.
C14_Witness ==
    /\ last.op = "_handler"
    /\ last.status = "sent"
    /\ last.arg.t = "VOICE_SERVER_UPDATE"
    /\ Len(out) = 1
    /\ heap # <<>>

\* The tasks that have entered `await self._websocket.send(...)` in _send
\* and have not left it: application calls, monitors and recovery tasks.
CallsInSend == {k \in 1 .. Len(calls) : calls[k].op # "Connection.disconnect"}
MonitorsInSend ==
    {k \in 1 .. Len(monitors) : monitors[k].pc \in {"disconnect", "pause"}}
RecoveriesInSend == {s \in Shards : utask[s].pc \in {"connect", "pause"}}
WritesInProgress ==
    Cardinality(CallsInSend) + Cardinality(MonitorsInSend)
        + Cardinality(RecoveriesInSend)

\* C15: _send serializes its callers: whatever the interleaving of the
\* player commands, the monitor and the recovery tasks, at most one of them
\* is inside the transport write at a time, and a step hands the transport
\* at most one envelope.
C15_SendSerializes ==
    /\ WritesInProgress <= 1
    /\ Len(out) <= 1

\* The monitor's part of the round trip: the paused flag of the Player it
\* handles is left alone from detection until the monitor reads it, the
\* monitor pauses the Player exactly when it was not paused, and the limbo
\* entry holds op_unpause exactly when the monitor paused it.
OutagePausesAndMarks ==
    /\ (last'.op = "monitor" /\ monitors[last'.arg].pc = "sleep") => heap' = heap
    /\ \A k \in 1 .. Len(monitors) :
          (monitors[k].pc = "disconnect" /\ monitors'[k] = monitors[k]) =>
              heap'[monitors[k].inst].paused = heap[monitors[k].inst].paused
    /\ (last'.op = "monitor" /\ monitors[last'.arg].pc = "disconnect") =>
          LET m == monitors[last'.arg]
          IN  IF heap[m.inst].paused
              THEN /\ heap'[m.inst].paused
                   /\ DictHas(limbo', m.guild)
                   /\ op_unpause \notin Range(DictVal(limbo', m.guild))
                   /\ \A n \in 1 .. Len(out') : out'[n].op # "pause"
              ELSE /\ ~heap'[m.inst].paused
                   /\ limbo' = limbo
                   /\ monitors'[last'.arg].pc \in {"pause", "dead"}
    /\ (last'.op = "monitor" /\ monitors[last'.arg].pc = "pause") =>
          LET m == monitors[last'.arg]
          IN  /\ heap'[m.inst].paused
              /\ DictHas(limbo', m.guild)
              /\ op_unpause \in Range(DictVal(limbo', m.guild))

\* The recovery's part: it unpauses exactly the Players whose entry holds
\* op_unpause, and leaves the others paused without a pause command.
RecoveryUnpausesMarked ==
    /\ (last'.op = "unlimbo" /\ utask[last'.arg].pc = "connect") =>
          LET t == utask[last'.arg]
          IN  /\ heap'[t.inst].paused
              /\ IF op_unpause \in Range(t.actions)
                 THEN /\ utask'[last'.arg].pc \in {"pause", "dead"}
                      /\ connected =>
                            out' = <<[op |-> "pause",
                                      guildId |-> ToString(t.guild),
                                      pause |-> FALSE]>>
                 ELSE \A n \in 1 .. Len(out') : out'[n].op # "pause"
    /\ (last'.op = "unlimbo" /\ utask[last'.arg].pc = "pause") =>
          ~heap'[utask[last'.arg].inst].paused

\* While a guild is in limbo its registered Player is paused.
PausedInLimbo ==
    \A g \in DictKeys(limbo) :
        DictHas(players, g) => heap[DictVal(players, g)].paused

\* C16: with one outage at a time and no application command between an
\* outage and the end of its recovery, the outage and the recovery are a
\* pause/resume round trip: a Player that was not paused is paused by the
\* monitor, stays paused while in limbo and is unpaused by the recovery; a
\* Player that was paused stays paused, and the recovery sends it no pause
\* command.
C16_PauseRoundTrip ==
    /\ [][OutagePausesAndMarks]_vars
    /\ [][RecoveryUnpausesMarked]_vars
    /\ []PausedInLimbo

\* The pause value of an envelope as the log holds it.
PauseText(b) == IF b THEN "true" ELSE "false"

\* No pause envelope written for a guild carries the value of the pause
\* envelope written for it before.
PauseEnvelopesAlternate ==
    \A n \in 1 .. Len(out') :
        out'[n].op = "pause" =>
            \A g \in GuildIds :
                out'[n].guildId = ToString(g) =>
                    pauses.value[g] # PauseText(out'[n].pause)

\* No task is inside a set_pause call on Player i.
NoSetPausePending(i) ==
    /\ \A k \in 1 .. Len(calls) :
          ~(calls[k].op = "set_pause" /\ calls[k].inst = i)
    /\ \A k \in 1 .. Len(monitors) :
          ~(monitors[k].pc = "pause" /\ monitors[k].inst = i)
    /\ \A s \in Shards : ~(utask[s].pc = "pause" /\ utask[s].inst = i)

\* C17: under every interleaving of the tasks that call set_pause on a
\* Player (the application, the monitor, the recovery), two consecutive pause
\* envelopes written for one guild never carry the same value, and when no
\* set_pause call on the Player is pending its paused flag is the value of
\* the last pause envelope written for its guild.
C17_SetPauseInterleaving ==
    /\ [][PauseEnvelopesAlternate]_vars
    /\ [](\A i \in 1 .. Len(heap) :
            (NoSetPausePending(i) /\ pauses.value[heap[i].guild] # "none") =>
                pauses.value[heap[i].guild] = PauseText(heap[i].paused))

\* C18: with the monitor and the recovery tasks scheduled fairly, no guild
\* stays in limbo for ever while its shard is up for ever: every guild put
\* in limbo leaves it once its shard is up again and stays up, also when the
\* shard went down again, or another guild of the shard was put in limbo,
\* while the shard's recovery task was running.
C18_LimboEventuallyLeft ==
    \A g \in {4194305, 12582913} :
        []<>(panicking(ShardOf(g)) \/ ~DictHas(limbo, g))

\* The recovery task of shard s has been created and has not ended.
RecoveryLive(s) == utask[s].pc \notin {"none", "dead"}

\* A live recovery task is registered, so that the monitor, which creates a
\* task only for a shard without an entry, never creates a second one.
LiveRecoveryRegistered == \A s \in Shards : RecoveryLive(s) => s \in unlimbo_tasks

\* C19: every shard has at most one live recovery task, and _unlimbo_tasks
\* holds an entry for the shard exactly while that task is live: the entry
\* is gone when the task has ended, also when it ended by the failure of the
\* connect or the set_pause inside it.
C19_OneRecoveryPerShard ==
    \A s \in Shards : s \in unlimbo_tasks <=> RecoveryLive(s)

\* The dispatch loops that have not ended and are not about to: those whose
\* recv is on a websocket that is still open.
LiveDispatchLoops ==
    {k \in 1 .. Len(processors) :
        processors[k].pc # "done" /\ processors[k].ws \in wsOpen}

\* The monitor loops that have not ended.
LiveMonitorLoops ==
    {k \in 1 .. Len(monitors) : monitors[k].pc \notin {"done", "dead"}}

\* C20: whatever Connection.connect and Connection.disconnect calls were
\* made, a connected Connection has at most one live dispatch loop and at
\* most one live monitor loop.
C20_OneLoopOfEachKind ==
    connected =>
        /\ Cardinality(LiveDispatchLoops) <= 1
        /\ Cardinality(LiveMonitorLoops) <= 1
====
